---- MODULE Spec2Model ----
(***************************************************************************)
(* The trim workflow of src/index.tsx (component App): engine load,        *)
(* handleFile, getVideoDuration, trimVideo, the engine progress callback   *)
(* and the delayed progress reset.  Every await of the source is a         *)
(* suspension point; the code between two awaits is one atomic action.     *)
(*                                                                         *)
(* Units: durations are in tenths of a second, progress.percent is in      *)
(* tenths of a percent point (30 + p * 0.6 becomes 300 + p * 6), an engine *)
(* progress fraction is in thousandths.                                    *)
(***************************************************************************)
EXTENDS Integers, Sequences, FiniteSets, TLC

\* ------------------------------------------------------------------ bounds
\* number of accepted handleFile invocations (run slots) in one behaviour
MaxRuns == 2

\* ------------------------------------------------------- program constants
\* `duration <= 3` and `duration - 3`, in tenths of a second
TrimTenths == 30

\* ------------------------------------------------------------------ inputs
\* A file name is the sequence of its "."-separated segments:
\* <<"a", "MOV">> is "a.MOV", <<"clip">> is "clip", <<"x", "">> is "x.".
\* duration is what the <video> element reports; probeOk = FALSE is a file
\* for which video.onerror fires.
Files ==
  { [name |-> <<"a", "MOV">>, duration |-> 100, probeOk |-> TRUE],
    [name |-> <<"b", "mov">>, duration |-> 35,  probeOk |-> TRUE],
    [name |-> <<"s", "mp4">>, duration |-> 30,  probeOk |-> TRUE],
    [name |-> <<"c", "mp4">>, duration |-> 0,   probeOk |-> FALSE] }

\* engine-reported progress fractions, in thousandths
Fractions == {0, 5, 1000}

\* ------------------------------------------------------------ pure helpers
\* String.prototype.toLowerCase on the segments used here
toLowerCase(s) ==
  CASE s = "MOV" -> "mov"
    [] s = "MP4" -> "mp4"
    [] OTHER -> s

\* filename.split('.').pop()?.toLowerCase() || 'mp4'
getFileExtension(filename) ==
  LET last == toLowerCase(filename[Len(filename)])
  IN  IF last = "" THEN "mp4" ELSE last

\* Math.round(x / 10) for x in tenths of the rounded unit (half rounds up)
MathRound(x) == (x + 5) \div 10

\* getMimeType: mimeTypes[ext] || 'video/mp4'
getMimeType(filename) ==
  LET ext == getFileExtension(filename)
  IN  CASE ext = "mp4" -> "video/mp4"
        [] ext = "webm" -> "video/webm"
        [] ext = "avi" -> "video/x-msvideo"
        [] ext = "mov" -> "video/quicktime"
        [] ext = "mkv" -> "video/x-matroska"
        [] ext = "flv" -> "video/x-flv"
        [] ext = "wmv" -> "video/x-ms-wmv"
        [] OTHER -> "video/mp4"

\* `input.${getFileExtension(file.name)}` and `output.${...}`
inputFileName(file) == "input." \o getFileExtension(file.name)
outputFileName(file) == "output." \o getFileExtension(file.name)

EntryNames == UNION { {inputFileName(f), outputFileName(f)} : f \in Files }

\* the bytes fetchFile(file) yields: the video of that file
Bytes(file) == [kind |-> "video", of |-> file.name, seconds |-> file.duration]

\* what `-i in -t limit -c copy out` writes: the input cut at the time limit
Trimmed(bytes, limit) ==
  [bytes EXCEPT !.seconds = IF limit < bytes.seconds THEN limit ELSE bytes.seconds]

Runs == 1..MaxRuns

VARIABLES
  initPc,          \* position of initializeFFmpeg: "mount", "loading", "done"
  ffmpegReady,     \* useState ffmpegReady
  ffmpegRef,       \* ffmpegRef.current # null
  currentVideo,    \* useState currentVideo
  processedVideo,  \* useState processedVideo
  progress,        \* useState progress
  error,           \* useState error
  info,            \* useState info
  isProcessing,    \* useState isProcessing
  fs,              \* the engine workspace: entry name -> content
  queue,           \* engine calls posted and not yet answered, oldest first
  urls,            \* object URLs created and not revoked
  timers,          \* pending setTimeout callbacks of trimVideo
  run,             \* per accepted handleFile invocation: its position and locals
  nruns,           \* accepted handleFile invocations so far
  lastEvent,       \* history: what the last handler to touch a run outcome did
  saved            \* the browser's last download: the clicked anchor's href and name

vars == << initPc, ffmpegReady, ffmpegRef, currentVideo, processedVideo,
           progress, error, info, isProcessing, fs, queue, urls, timers,
           run, nruns, lastEvent, saved >>

NoFile == [name |-> <<>>, duration |-> 0, probeOk |-> FALSE]
NoUrl == <<>>
Absent == [kind |-> "absent"]
NoVideo == [file |-> NoFile, duration |-> 0, url |-> NoUrl]
NoResult == [blob |-> Absent, url |-> NoUrl, originalName |-> <<>>]
Hidden == [visible |-> FALSE, percent |-> 0, text |-> ""]
NoSave == [href |-> NoUrl, download |-> << >>]

NotLoadedMsg == "FFmpeg is not loaded yet. Please wait for initialization to complete."
LoadFailedMsg == "Failed to load FFmpeg. Please refresh the page and try again."
ProcessingMsg == "Error processing video"
LoadedInfo == "FFmpeg loaded successfully! You can now upload a video."

IdleRun ==
  [pc |-> "idle", file |-> NoFile, blob |-> Absent, outcome |-> "none",
   engineOps |-> 0, errs |-> 0, pubs |-> 0, prior |-> NoResult,
   phases |-> << >>, exitCode |-> -1, args |-> << >>, follows |-> "none"]

Init ==
  /\ initPc = "mount"
  /\ ffmpegReady = FALSE
  /\ ffmpegRef = FALSE
  /\ currentVideo = NoVideo
  /\ processedVideo = NoResult
  /\ progress = Hidden
  /\ error = ""
  /\ info = ""
  /\ isProcessing = FALSE
  /\ fs = [n \in EntryNames |-> Absent]
  /\ queue = << >>
  /\ urls = {}
  /\ timers = 0
  /\ run = [r \in Runs |-> IdleRun]
  /\ nruns = 0
  /\ lastEvent = "none"
  /\ saved = NoSave

\* ------------------------------------------------------------- engine load
\* useEffect: initializeFFmpeg up to `await ffmpeg.load(...)`
initializeFFmpeg ==
  /\ initPc = "mount"
  /\ initPc' = "loading"
  /\ progress' = [visible |-> TRUE, percent |-> 0, text |-> "Loading FFmpeg..."]
  /\ UNCHANGED << saved, ffmpegReady, ffmpegRef, currentVideo, processedVideo, error,
                  info, isProcessing, fs, queue, urls, timers, run, nruns,
                  lastEvent >>

\* a load that sets the ready flag without storing the instance
LoadOkNoRef ==
  /\ initPc = "loading"
  /\ initPc' = "done"
  /\ ffmpegRef' = FALSE
  /\ ffmpegReady' = TRUE
  /\ progress' = Hidden
  /\ info' = LoadedInfo
  /\ UNCHANGED << saved, currentVideo, processedVideo, error, isProcessing, fs, queue,
                  urls, timers, run, nruns, lastEvent >>

\* ffmpeg.load resolves: ffmpegRef.current = ffmpeg; setFfmpegReady(true)
LoadOk ==
  /\ initPc = "loading"
  /\ initPc' = "done"
  /\ ffmpegRef' = TRUE
  /\ ffmpegReady' = TRUE
  /\ progress' = Hidden
  /\ info' = LoadedInfo
  /\ UNCHANGED << saved, currentVideo, processedVideo, error, isProcessing, fs, queue,
                  urls, timers, run, nruns, lastEvent >>

\* toBlobURL or ffmpeg.load rejects: the catch block
LoadFail ==
  /\ initPc = "loading"
  /\ initPc' = "done"
  /\ progress' = Hidden
  /\ error' = LoadFailedMsg
  /\ lastEvent' = "LoadFailed"
  /\ UNCHANGED << saved, ffmpegReady, ffmpegRef, currentVideo, processedVideo, info,
                  isProcessing, fs, queue, urls, timers, run, nruns >>

\* ------------------------------------------------------------- handleFile
\* a handleFile that lost its readiness test
engineReadyAlways == TRUE

\* `if (!ffmpegReady)`: the test handleFile makes before anything else
engineReady == ffmpegReady

\* a duration test that lets exactly 3 seconds through
tooShortStrict(duration) == duration < TrimTenths

\* `if (duration <= 3)`
tooShort(duration) == duration <= TrimTenths

\* a handleFile that also turns a file away while an error is displayed
handleFileBlocked(file) ==
  /\ ~engineReady \/ error # ""
  /\ error' = NotLoadedMsg
  /\ lastEvent' = "NotReady"
  /\ UNCHANGED << saved, initPc, ffmpegReady, ffmpegRef, currentVideo, processedVideo,
                  progress, info, isProcessing, fs, queue, urls, timers, run,
                  nruns >>

\* handleFile with ffmpegReady false: the early return
handleFileNotReady(file) ==
  /\ ~engineReady
  /\ error' = NotLoadedMsg
  /\ lastEvent' = "NotReady"
  /\ UNCHANGED << saved, initPc, ffmpegReady, ffmpegRef, currentVideo, processedVideo,
                  progress, info, isProcessing, fs, queue, urls, timers, run,
                  nruns >>

\* handleFile up to `await getVideoDuration(file)`; getVideoDuration creates
\* the probe URL synchronously
handleFile(file) ==
  /\ engineReady
  /\ nruns < MaxRuns
  /\ LET r == nruns + 1 IN
       /\ nruns' = r
       /\ run' = [run EXCEPT ![r] = [IdleRun EXCEPT !.pc = "probe", !.file = file,
                                                   !.prior = processedVideo,
                                                   !.phases = <<"Validating">>,
                                                   !.follows = IF /\ \A q \in Runs : run[q].pc \in {"idle", "done"}
                                                                  /\ nruns > 0
                                                               THEN lastEvent
                                                               ELSE "none"]]
       /\ urls' = urls \cup {<<r, "probe">>}
  /\ error' = ""
  /\ info' = ""
  /\ processedVideo' = NoResult
  /\ isProcessing' = TRUE
  /\ lastEvent' = "Intake"
  /\ UNCHANGED << saved, initPc, ffmpegReady, ffmpegRef, currentVideo, progress, fs,
                  queue, timers >>

\* a handleFile whose catch block does not report the error
handleFileCatchSilent(r) ==
  /\ error' = error
  /\ isProcessing' = FALSE
  /\ run' = [run EXCEPT ![r].pc = "done", ![r].outcome = "ValidationRejected"]
  /\ lastEvent' = "ValidationRejected"

\* the catch block of handleFile
handleFileCatch(r) ==
  /\ error' = ProcessingMsg
  /\ isProcessing' = FALSE
  /\ run' = [run EXCEPT ![r].pc = "done", ![r].outcome = "ValidationRejected",
                        ![r].errs = @ + 1]
  /\ lastEvent' = "ValidationRejected"

\* a catch block that also drops the published result
trimVideoCatchClearsResult(r) ==
  /\ error' = ProcessingMsg
  /\ processedVideo' = NoResult
  /\ isProcessing' = FALSE
  /\ run' = [run EXCEPT ![r].pc = "done", ![r].outcome = "RunFailure",
                        ![r].errs = @ + 1]
  /\ lastEvent' = "RunFailure"

\* the catch and finally blocks of trimVideo
trimVideoCatch(r) ==
  /\ error' = ProcessingMsg
  /\ processedVideo' = processedVideo
  /\ isProcessing' = FALSE
  /\ run' = [run EXCEPT ![r].pc = "done", ![r].outcome = "RunFailure",
                        ![r].errs = @ + 1]
  /\ lastEvent' = "RunFailure"

\* video.onloadedmetadata: resolve, revoke the probe URL; then handleFile
\* continues to the duration test and into trimVideo up to `await fetchFile`
onloadedmetadata(r) ==
  /\ run[r].pc = "probe"
  /\ run[r].file.probeOk
  /\ LET file == run[r].file
         duration == file.duration
     IN  IF tooShort(duration)
         THEN /\ handleFileCatch(r)
              /\ urls' = urls \ {<<r, "probe">>}
              /\ UNCHANGED << currentVideo, progress, processedVideo >>
         ELSE /\ urls' = (urls \ {<<r, "probe">>}) \cup {<<r, "video">>}
              /\ currentVideo' = [file |-> file, duration |-> duration,
                                  url |-> <<r, "video">>]
              /\ IF ~ffmpegRef
                 THEN /\ trimVideoCatch(r)
                      /\ progress' = [visible |-> TRUE, percent |-> 100,
                                      text |-> "Loading video file..."]
                 ELSE /\ progress' = [visible |-> TRUE, percent |-> 200,
                                      text |-> "Preparing FFmpeg..."]
                      /\ run' = [run EXCEPT ![r].pc = "fetch",
                                            ![r].phases = Append(@, "Staging")]
                      /\ UNCHANGED << error, isProcessing, lastEvent,
                                      processedVideo >>
  /\ UNCHANGED << saved, initPc, ffmpegReady, ffmpegRef, info, fs, queue, timers,
                  nruns >>

\* video.onerror: the promise rejects, the probe URL is not revoked
onerror(r) ==
  /\ run[r].pc = "probe"
  /\ ~run[r].file.probeOk
  /\ handleFileCatch(r)
  /\ UNCHANGED << saved, initPc, ffmpegReady, ffmpegRef, currentVideo, processedVideo,
                  progress, info, fs, queue, urls, timers, nruns >>

\* --------------------------------------------------------------- trimVideo
\* An engine call is posted to the engine worker, which answers calls in the
\* order they were posted: Post appends the caller, Answered(r) says the
\* oldest pending call is r's.
Post(q, r) == Append(q, r)
Answered(r) == queue # << >> /\ Head(queue) = r

Engine(r, op) == run[r].pc = op /\ Answered(r)

\* fetchFile(file) resolves; ffmpeg.writeFile(inputFileName, ...) is posted
fetchFileDone(r) ==
  /\ run[r].pc = "fetch"
  /\ run' = [run EXCEPT ![r].pc = "writeFile", ![r].engineOps = @ + 1]
  /\ queue' = Post(queue, r)
  /\ UNCHANGED << saved, initPc, ffmpegReady, ffmpegRef, currentVideo, processedVideo,
                  progress, error, info, isProcessing, fs, urls, timers, nruns,
                  lastEvent >>

\* an end time that is the whole duration
endTimeUntrimmed(file) == file.duration

\* const endTime = duration - 3
endTime(file) == file.duration - TrimTenths

\* Number.prototype.toString of a value given in tenths (durations here are
\* multiples of 0.5 s, which a double holds exactly): 70 is "7", 5 is "0.5"
toString(tenths) ==
  IF tenths % 10 = 0
  THEN ToString(tenths \div 10)
  ELSE ToString(tenths \div 10) \o "." \o ToString(tenths % 10)

\* the argument list of ffmpeg.exec
execArgs(file) ==
  << "-i", inputFileName(file), "-t", toString(endTime(file)), "-c", "copy",
     "-avoid_negative_ts", "make_zero", outputFileName(file) >>

\* writeFile resolves: the input entry exists; ffmpeg.exec([...]) is posted
writeFileOk(r) ==
  /\ Engine(r, "writeFile")
  /\ fs' = [fs EXCEPT ![inputFileName(run[r].file)] = Bytes(run[r].file)]
  /\ progress' = [visible |-> TRUE, percent |-> 300, text |-> "Trimming video..."]
  /\ run' = [run EXCEPT ![r].pc = "exec", ![r].engineOps = @ + 1,
                        ![r].phases = Append(@, "Transcoding"),
                        ![r].args = execArgs(run[r].file)]
  /\ queue' = Post(Tail(queue), r)
  /\ UNCHANGED << saved, initPc, ffmpegReady, ffmpegRef, currentVideo, processedVideo,
                  error, info, isProcessing, urls, timers, nruns, lastEvent >>

\* writeFile rejects
writeFileFail(r) ==
  /\ Engine(r, "writeFile")
  /\ queue' = Tail(queue)
  /\ trimVideoCatch(r)
  /\ UNCHANGED << saved, initPc, ffmpegReady, ffmpegRef, currentVideo, progress, info,
                  fs, urls, timers, nruns >>

\* after `await ffmpeg.exec` returns, whatever exit code it resolved with:
\* progress 90, ffmpeg.readFile is posted
afterExec(r, code) ==
  /\ progress' = [visible |-> TRUE, percent |-> 900, text |-> "Finalizing..."]
  /\ run' = [run EXCEPT ![r].pc = "readFile", ![r].engineOps = @ + 1,
                        ![r].phases = Append(@, "Finalizing"),
                        ![r].exitCode = code]
  /\ queue' = Post(Tail(queue), r)

\* exec resolves with exit code 0: the output entry holds the trimmed input
execOk(r) ==
  /\ Engine(r, "exec")
  /\ fs[inputFileName(run[r].file)] # Absent
  /\ fs' = [fs EXCEPT ![outputFileName(run[r].file)] =
                        Trimmed(fs[inputFileName(run[r].file)], endTime(run[r].file))]
  /\ afterExec(r, 0)
  /\ UNCHANGED << saved, initPc, ffmpegReady, ffmpegRef, currentVideo, processedVideo,
                  error, info, isProcessing, urls, timers, nruns, lastEvent >>

\* exec resolves with a non-zero exit code (the code does not look at it):
\* no output entry is written
execNonZero(r) ==
  /\ Engine(r, "exec")
  /\ afterExec(r, 1)
  /\ UNCHANGED << saved, initPc, ffmpegReady, ffmpegRef, currentVideo, processedVideo,
                  error, info, isProcessing, fs, urls, timers, nruns, lastEvent >>

\* exec rejects
execThrow(r) ==
  /\ Engine(r, "exec")
  /\ queue' = Tail(queue)
  /\ trimVideoCatch(r)
  /\ UNCHANGED << saved, initPc, ffmpegReady, ffmpegRef, currentVideo, progress, info,
                  fs, urls, timers, nruns >>

\* a composite percent that gives the engine's percent its full weight
compositeUnweighted(progressPercent) == 300 + progressPercent * 10

\* percent: 30 + progressPercent * 0.6 (30-90% range for processing), in
\* tenths of a percent
composite(progressPercent) == 300 + progressPercent * 6

\* ffmpeg.on('progress'): the engine reports a fraction while it runs exec
onProgress(fraction) ==
  /\ \E r \in Runs : Engine(r, "exec")
  /\ LET progressPercent == MathRound(fraction)
     IN  progress' = [progress EXCEPT
                        !.percent = composite(progressPercent),
                        !.text = "Processing video... " \o ToString(progressPercent) \o "%"]
  /\ UNCHANGED << saved, initPc, ffmpegReady, ffmpegRef, currentVideo, processedVideo,
                  error, info, isProcessing, fs, queue, urls, timers, run, nruns,
                  lastEvent >>

\* `await ffmpeg.readFile(outputFileName)` answers.  With the output entry
\* present the blob is built and ffmpeg.deleteFile(inputFileName) is posted;
\* with no such entry the call rejects
readFile(r) ==
  /\ Engine(r, "readFile")
  /\ IF fs[outputFileName(run[r].file)] # Absent
     THEN /\ run' = [run EXCEPT ![r].pc = "deleteInput", ![r].engineOps = @ + 1,
                                ![r].blob = [data |-> fs[outputFileName(run[r].file)],
                                             type |-> getMimeType(run[r].file.name)]]
          /\ queue' = Post(Tail(queue), r)
          /\ UNCHANGED << error, isProcessing, lastEvent, processedVideo >>
     ELSE /\ queue' = Tail(queue)
          /\ trimVideoCatch(r)
  /\ UNCHANGED << saved, initPc, ffmpegReady, ffmpegRef, currentVideo, progress, info,
                  fs, urls, timers, nruns >>

\* `await ffmpeg.deleteFile(inputFileName)` answers.  The entry is removed
\* and deleteFile(outputFileName) is posted; with no such entry the call
\* rejects
deleteInput(r) ==
  /\ Engine(r, "deleteInput")
  /\ IF fs[inputFileName(run[r].file)] # Absent
     THEN /\ fs' = [fs EXCEPT ![inputFileName(run[r].file)] = Absent]
          /\ run' = [run EXCEPT ![r].pc = "deleteOutput", ![r].engineOps = @ + 1]
          /\ queue' = Post(Tail(queue), r)
          /\ UNCHANGED << error, isProcessing, lastEvent, processedVideo >>
     ELSE /\ queue' = Tail(queue)
          /\ trimVideoCatch(r)
          /\ fs' = fs
  /\ UNCHANGED << saved, initPc, ffmpegReady, ffmpegRef, currentVideo, progress, info,
                  urls, timers, nruns >>

\* setProcessedVideo({blob, url: URL.createObjectURL(blob), originalName})
publish(r) ==
  [blob |-> run[r].blob, url |-> <<r, "result">>, originalName |-> run[r].file.name]

\* `await ffmpeg.deleteFile(outputFileName)` answers.  The entry is removed,
\* the result is published, a second URL of the blob is created for
\* console.log, progress is 100 and the reset timer is set; with no such
\* entry the call rejects.  Both ways end in the finally block
deleteOutput(r) ==
  /\ Engine(r, "deleteOutput")
  /\ queue' = Tail(queue)
  /\ IF fs[outputFileName(run[r].file)] # Absent
     THEN /\ fs' = [fs EXCEPT ![outputFileName(run[r].file)] = Absent]
          /\ processedVideo' = publish(r)
          /\ urls' = urls \cup {<<r, "result">>, <<r, "log">>}
          /\ progress' = [visible |-> TRUE, percent |-> 1000, text |-> "Complete!"]
          /\ timers' = timers + 1
          /\ isProcessing' = FALSE
          /\ run' = [run EXCEPT ![r].pc = "done", ![r].outcome = "Success",
                                ![r].pubs = @ + 1]
          /\ lastEvent' = "Success"
          /\ UNCHANGED error
     ELSE /\ trimVideoCatch(r)
          /\ UNCHANGED << progress, fs, urls, timers >>
  /\ UNCHANGED << saved, initPc, ffmpegReady, ffmpegRef, currentVideo, info, nruns >>

\* the setTimeout callback of trimVideo
resetProgress ==
  /\ timers > 0
  /\ timers' = timers - 1
  /\ progress' = Hidden
  /\ UNCHANGED << saved, initPc, ffmpegReady, ffmpegRef, currentVideo, processedVideo,
                  error, info, isProcessing, fs, queue, urls, run, nruns,
                  lastEvent >>

\* ------------------------------------------------------------ download
\* originalName.replace(/\.[^/.]+$/, ''): the name without its last segment,
\* when there is one after a dot and it is not empty
baseName(originalName) ==
  IF Len(originalName) >= 2 /\ originalName[Len(originalName)] # ""
  THEN SubSeq(originalName, 1, Len(originalName) - 1)
  ELSE originalName

\* `${baseName}_trimmed.${originalExt}`
downloadName(originalName) ==
  LET base == baseName(originalName)
  IN  SubSeq(base, 1, Len(base) - 1)
        \o << base[Len(base)] \o "_trimmed", getFileExtension(originalName) >>

\* a download that hands the result over and drops it
downloadTrimmedVideoConsumes ==
  /\ IF processedVideo = NoResult
     THEN saved' = saved
     ELSE saved' = [href |-> processedVideo.url,
                    download |-> downloadName(processedVideo.originalName)]
  /\ processedVideo' = NoResult
  /\ UNCHANGED << initPc, ffmpegReady, ffmpegRef, currentVideo,
                  progress, error, info, isProcessing, fs, queue, urls, timers,
                  run, nruns, lastEvent >>

\* downloadTrimmedVideo: returns at once without a result; otherwise clicks
\* a temporary anchor whose href is the result URL
downloadTrimmedVideo ==
  /\ IF processedVideo = NoResult
     THEN saved' = saved
     ELSE saved' = [href |-> processedVideo.url,
                    download |-> downloadName(processedVideo.originalName)]
  /\ UNCHANGED << initPc, ffmpegReady, ffmpegRef, currentVideo, processedVideo,
                  progress, error, info, isProcessing, fs, queue, urls, timers,
                  run, nruns, lastEvent >>

Next ==
  \/ initializeFFmpeg
  \/ LoadOk
  \/ LoadFail
  \/ \E f \in Files : handleFileNotReady(f)
  \/ \E f \in Files : handleFile(f)
  \/ \E r \in Runs : onloadedmetadata(r)
  \/ \E r \in Runs : onerror(r)
  \/ \E r \in Runs : fetchFileDone(r)
  \/ \E r \in Runs : writeFileOk(r)
  \/ \E r \in Runs : writeFileFail(r)
  \/ \E r \in Runs : execOk(r)
  \/ \E r \in Runs : execNonZero(r)
  \/ \E r \in Runs : execThrow(r)
  \/ \E fraction \in Fractions : onProgress(fraction)
  \/ \E r \in Runs : readFile(r)
  \/ \E r \in Runs : deleteInput(r)
  \/ \E r \in Runs : deleteOutput(r)
  \/ resetProgress
  \/ downloadTrimmedVideo

Spec == Init /\ [][Next]_vars

\* What run r does when its pending await settles.
Settle(r) ==
  \/ onloadedmetadata(r)
  \/ onerror(r)
  \/ fetchFileDone(r)
  \/ writeFileOk(r)
  \/ writeFileFail(r)
  \/ execOk(r)
  \/ execNonZero(r)
  \/ execThrow(r)
  \/ readFile(r)
  \/ deleteInput(r)
  \/ deleteOutput(r)

\* Every await settles: the probe and each engine call eventually return or
\* throw.
FairSpec == Spec /\ \A r \in Runs : WF_vars(Settle(r))

\* ------------------------------------------------------------------ claims
Active(r) == run[r].pc \notin {"idle", "done"}
Ended(r) == run[r].pc = "done"
Quiet == \A r \in Runs : ~Active(r)
WorkspaceEmpty == \A n \in EntryNames : fs[n] = Absent
InQueue(r) == \E i \in 1..Len(queue) : queue[i] = r

\* C1: a run whose probed duration is at most 3.0 s, or whose probe fails,
\* never posts an engine workspace call (write, exec, read, delete) and,
\* once ended, has ended as ValidationRejected.
C1_ShortOrUnprobedNeverTouchesEngine ==
  \A r \in Runs :
    (run[r].pc # "idle" /\ (~run[r].file.probeOk \/ run[r].file.duration <= TrimTenths))
      => /\ run[r].engineOps = 0
         /\ ~InQueue(r)
         /\ run[r].pc \in {"probe", "done"}
         /\ Ended(r) => run[r].outcome = "ValidationRejected"

\* C1 witness: a run of exactly 3.0 s and a run whose probe failed have both
\* ended
C1_Witness ==
  /\ \E r \in Runs : Ended(r) /\ run[r].file.probeOk /\ run[r].file.duration = TrimTenths
  /\ \E r \in Runs : Ended(r) /\ ~run[r].file.probeOk

\* C2: while the engine is not Ready, and from a not-ready rejection until
\* the next intake (also across the engine becoming Ready), no run exists:
\* nothing is probed, queued or posted to the engine, and the rejection left
\* the not-ready message in the error slot.
C2_NotReadyRejectsAndNeverQueues ==
  /\ (~ffmpegReady \/ lastEvent = "NotReady")
       => /\ nruns = 0
          /\ \A r \in Runs : run[r] = IdleRun
          /\ queue = << >>
          /\ urls = {}
          /\ WorkspaceEmpty
          /\ ~isProcessing
  /\ (lastEvent = "NotReady") => error = NotLoadedMsg

\* C2 witness: an intake was rejected as not ready and the engine has become
\* Ready since
C2_Witness == lastEvent = "NotReady" /\ ffmpegReady

LoadFailed == initPc = "done" /\ ~ffmpegReady

\* C3 (as claimed): once the engine load has failed the ready flag stays
\* false, no run ever starts, and the error slot shows the Fatal condition,
\* also after an intake attempt.
C3_FatalIsTerminalAndReported ==
  LoadFailed => /\ ~ffmpegRef
                /\ nruns = 0
                /\ error = LoadFailedMsg

\* C4 (as claimed): once no run is in flight, the workspace holds no staged
\* entry, whether the runs ended in Success or in RunFailure.
C4_WorkspaceCleanAfterRun == (nruns > 0 /\ Quiet) => WorkspaceEmpty

\* C5 (as claimed): a result handle that is live is the handle of the current
\* TrimResult: the handle of a superseded result has been revoked.
C5_SupersededResultHandleRevoked ==
  \A u \in urls : u[2] = "result" => processedVideo.url = u

OnlyActive(r) == Active(r) /\ \A q \in Runs \ {r} : ~Active(q)

\* C6 (as claimed): in a step taken while one run, and no other, is in
\* flight the progress percent does not decrease, and the step that ends a
\* run in Success leaves it at 100.
C6_ProgressMonotonicWithinRun ==
  [][ /\ (\E r \in Runs : OnlyActive(r)) => progress'.percent >= progress.percent
      /\ \A r \in Runs :
           (run[r].outcome # "Success" /\ run'[r].outcome = "Success")
             => progress'.percent = 1000 ]_vars

\* C7 (as claimed): at most one run is in flight in every reachable state.
C7_AtMostOneActiveRun == Cardinality({r \in Runs : Active(r)}) <= 1

\* C8 (as claimed): when the latest run has ended in RunFailure and nothing
\* else is in flight, the TrimResult that existed at its intake is still the
\* published one.
C8_PriorResultSurvivesFailure ==
  \A r \in Runs :
    (r = nruns /\ Quiet /\ run[r].outcome = "RunFailure" /\ run[r].prior # NoResult)
      => processedVideo = run[r].prior

\* C8 (amended): the step that accepts an intake clears the TrimResult slot,
\* and the step in which a run ends in RunFailure leaves the slot as it was
\* just before the failure.
C8_FailureLeavesResultSlotAlone ==
  [][ /\ (nruns' # nruns) => processedVideo' = NoResult
      /\ \A r \in Runs :
           (run[r].outcome # "RunFailure" /\ run'[r].outcome = "RunFailure")
             => processedVideo' = processedVideo ]_vars

\* C8 witness: a run accepted while a TrimResult existed has ended in
\* RunFailure
C8_Witness ==
  \E r \in Runs : run[r].outcome = "RunFailure" /\ run[r].prior # NoResult

\* C9 (as claimed): after a failure, with no run in flight, the progress
\* indicator is hidden and the error slot is non-empty; after an intake the
\* error and info slots are empty until the next outcome.
C9_FailureHidesProgressAndSetsError ==
  /\ (lastEvent \in {"LoadFailed", "ValidationRejected", "RunFailure"} /\ Quiet)
       => (~progress.visible /\ error # "")
  /\ (lastEvent = "Intake") => (error = "" /\ info = "")

Terminal(r) ==
  \/ run[r].outcome = "Success" /\ run[r].pubs = 1 /\ run[r].errs = 0
  \/ /\ run[r].outcome \in {"ValidationRejected", "RunFailure"}
     /\ run[r].pubs = 0 /\ run[r].errs = 1

\* C10: every accepted invocation eventually ends (time and again no run is
\* in flight, and a run never becomes idle again), a run that has ended has
\* exactly one outcome (Success: it published once and set no error;
\* ValidationRejected or RunFailure: it set the error once and published
\* nothing), and a run that has not ended has published and reported nothing.
C10_ExactlyOneOutcome ==
  /\ [](\A r \in Runs :
          /\ Ended(r) => Terminal(r)
          /\ ~Ended(r) => (run[r].outcome = "none" /\ run[r].pubs = 0 /\ run[r].errs = 0))
  /\ []<>Quiet

\* C10 witness: one run has ended in Success and another in RunFailure
C10_Witness ==
  /\ \E r \in Runs : Ended(r) /\ run[r].outcome = "Success"
  /\ \E r \in Runs : Ended(r) /\ run[r].outcome = "RunFailure"

IsPrefix(s, t) == Len(s) <= Len(t) /\ \A i \in 1..Len(s) : s[i] = t[i]
PhaseOrder == <<"Validating", "Staging", "Transcoding", "Finalizing">>

\* C11 (as claimed): the phases a run has entered are an initial part of
\* Validating, Staging, Transcoding, Finalizing; a run that posted writeFile
\* has been probed, one that posted exec has written its input, one that
\* entered Finalizing (posted readFile) saw the engine invocation return
\* without error, and a run that ended in Success went through all four.
C11_PhasesInOrder ==
  \A r \in Runs :
    /\ IsPrefix(run[r].phases, PhaseOrder)
    /\ run[r].engineOps >= 1 => Len(run[r].phases) >= 2
    /\ run[r].engineOps >= 2 => Len(run[r].phases) >= 3
    /\ Len(run[r].phases) = 4 => run[r].exitCode = 0
    /\ run[r].outcome = "Success" => run[r].phases = PhaseOrder

\* C12: every engine invocation was posted for a probed duration above 3.0 s
\* and its time-limit argument is the decimal string of duration - 3.0, a
\* strictly positive value: "7" for 10 s, "0.5" for 3.5 s; never "0" and
\* never negative.
C12_TimeLimitIsDurationMinusThree ==
  \A r \in Runs :
    run[r].args # << >> =>
      LET d == run[r].file.duration
          limit == run[r].args[4]
      IN  /\ d > 30
          /\ run[r].args[3] = "-t"
          /\ limit = toString(d - 30)
          /\ d = 100 => limit = "7"
          /\ d = 35 => limit = "0.5"
          /\ limit \notin {"0", "-0.5", "10", "3.5"}

\* C12 witness: exec was invoked for the 10 s file and for the 3.5 s file
C12_Witness ==
  /\ \E r \in Runs : run[r].args # << >> /\ run[r].file.duration = 100
  /\ \E r \in Runs : run[r].args # << >> /\ run[r].file.duration = 35

\* C13 (as claimed): a published result comes from a run that ended in
\* Success after writeFile, an error-free exec, readFile and both deleteFile
\* calls; a run that ended in ValidationRejected or RunFailure published
\* nothing; and at most one TrimResult handle is live.
C13_ResultOnlyOnSuccessAndSingle ==
  /\ processedVideo # NoResult =>
       \E r \in Runs : /\ processedVideo.url = <<r, "result">>
                        /\ run[r].outcome = "Success"
                        /\ run[r].engineOps = 5
                        /\ run[r].exitCode = 0
  /\ \A r \in Runs :
       run[r].outcome \in {"ValidationRejected", "RunFailure"} => run[r].pubs = 0
  /\ Cardinality({u \in urls : u[2] = "result"}) <= 1

\* C14: the load is started once (from mount) and is never started again; the
\* ready flag, once true, stays true and the instance, once stored, stays
\* stored; whenever the ready flag is true the instance is present, so no run
\* ends in RunFailure without having posted an engine call (the
\* 'FFmpeg is not initialized' exit of trimVideo is never taken).
C14_LoadedOnceAndReadyDurable ==
  /\ [](ffmpegReady => (ffmpegRef /\ initPc = "done"))
  /\ [](\A r \in Runs :
          /\ run[r].pc # "idle" => ffmpegRef
          /\ run[r].outcome = "RunFailure" => run[r].engineOps >= 1)
  /\ [][/\ ffmpegReady => ffmpegReady'
        /\ ffmpegRef => ffmpegRef'
        /\ initPc # "mount" => initPc' # "mount"
        /\ initPc = "done" => initPc' = "done"]_vars

\* C14 witness: the engine is ready and a run started after readiness went
\* past trimVideo's instance test and ended in RunFailure in an engine call
C14_Witness ==
  /\ ffmpegReady
  /\ \E r \in Runs : run[r].outcome = "RunFailure" /\ run[r].engineOps >= 1
  /\ \E r \in Runs : run[r].pc = "fetch"

\* C15 (as claimed): at most one intake preview URL is live, and a live one
\* is the URL of the current video.
C15_OldPreviewHandleReleased ==
  /\ Cardinality({u \in urls : u[2] = "video"}) <= 1
  /\ \A u \in urls : u[2] = "video" => currentVideo.url = u

Failures == {"ValidationRejected", "RunFailure"}

\* an engine call of run r was answered with an error by the engine itself:
\* writeFile or exec rejected, or exec returned a non-zero exit code
EngineFault(r) ==
  \/ run[r].exitCode = 1
  \/ run[r].outcome = "RunFailure" /\ run[r].engineOps \in {1, 2}

\* C16: after a run has ended in ValidationRejected or RunFailure the engine
\* is still ready and its instance present; no file is turned away once a run
\* has been accepted (only a load that has not completed or has failed turns
\* files away); and a run accepted right after such an end, with a probed
\* duration above 3.0 s and no engine fault of its own, ends in Success with
\* its result published and no error shown.
C16_FailuresAreRecoverable ==
  /\ (\E r \in Runs : Ended(r) /\ run[r].outcome \in Failures) =>
       (ffmpegReady /\ ffmpegRef /\ engineReady)
  /\ lastEvent = "NotReady" => nruns = 0
  /\ LoadFailed => nruns = 0
  /\ \A r \in Runs :
       (run[r].follows \in Failures /\ r = nruns) =>
         /\ run[r].file.probeOk /\ ~tooShort(run[r].file.duration) =>
              run[r].outcome # "ValidationRejected"
         /\ (Ended(r) /\ run[r].file.probeOk /\ ~tooShort(run[r].file.duration)
                      /\ ~EngineFault(r)) =>
              /\ run[r].outcome = "Success"
              /\ processedVideo = publish(r)
              /\ error = ""

\* C16 witness: a run accepted right after a RunFailure that left its input
\* entry in the workspace has ended in Success
C16_Witness ==
  \E r \in Runs : /\ run[r].follows = "RunFailure"
                   /\ r = nruns
                   /\ run[r].outcome = "Success"
                   /\ \E q \in Runs : run[q].outcome = "RunFailure" /\ run[q].engineOps = 2

\* C17 (as claimed): the percent is always a whole number of percent in
\* 0..100, and every progress report of the engine sets it inside 30..90.
C17_PercentIntegerInWindow ==
  /\ [](progress.percent % 10 = 0 /\ progress.percent >= 0 /\ progress.percent <= 1000)
  /\ [][(\E f \in Fractions : onProgress(f)) =>
          (progress'.percent >= 300 /\ progress'.percent <= 900)]_vars

\* C17 (amended): the percent is always a number in 0..100; every progress
\* report of the engine sets it to 30 + 0.6 * round(100 f), which lies inside
\* 30..90; it is a whole number at the fixed checkpoints and can only be
\* fractional strictly inside the transcoding window.
C17_PercentInRangeAndWindow ==
  /\ [](progress.percent >= 0 /\ progress.percent <= 1000)
  /\ [](progress.percent % 10 # 0 => (progress.percent > 300 /\ progress.percent < 900))
  /\ [][\A f \in Fractions : onProgress(f) =>
          /\ progress'.percent = 300 + 6 * MathRound(f)
          /\ progress'.percent >= 300 /\ progress'.percent <= 900]_vars

\* C17 witness: the engine reported 0.005 during exec and the percent is 30.6
C17_Witness ==
  /\ progress.percent = 306
  /\ progress.text = "Processing video... 1%"
  /\ \E r \in Runs : run[r].pc = "exec"

\* C18: a step that saves a download happens only with a result present,
\* saves that result's URL under <base>_trimmed.<ext>, and changes nothing
\* else; downloadTrimmedVideo changes none of the current video, the result
\* and its URL, the progress, the error and info slots and the workspace, and
\* without a result it changes nothing at all.
C18_DownloadMutatesNothing ==
  /\ [][saved' # saved =>
          /\ processedVideo # NoResult
          /\ saved'.href = processedVideo.url
          /\ saved'.download = downloadName(processedVideo.originalName)
          /\ UNCHANGED << initPc, ffmpegReady, ffmpegRef, currentVideo,
                          processedVideo, progress, error, info, isProcessing,
                          fs, queue, urls, timers, run, nruns, lastEvent >>]_vars
  /\ [][downloadTrimmedVideo =>
          /\ UNCHANGED << currentVideo, processedVideo, progress, error, info,
                          fs, urls, ffmpegReady, ffmpegRef, run >>
          /\ processedVideo = NoResult => UNCHANGED vars]_vars

\* C18 witness: the result of a.MOV has been downloaded as a_trimmed.mov and
\* is still the published result, its URL still live
C18_Witness ==
  /\ saved # NoSave
  /\ saved.href = processedVideo.url
  /\ saved.href \in urls
  /\ saved.download = <<"a_trimmed", "mov">>

\* C19 (as claimed): when a reset timer fires while a run accepted after a
\* Success is the only run in progress (it has entered trimVideo and set the
\* progress itself), the progress indicator is left as it is.
C19_ResetOnlyAffectsOwnRun ==
  [][(/\ timers' = timers - 1
      /\ \E r \in Runs : /\ OnlyActive(r)
                         /\ run[r].follows = "Success"
                         /\ run[r].pc # "probe") =>
       progress' = progress]_vars

\* C20 (as claimed): the published result carries the bytes the engine made
\* from the input of the file it is named after, trimmed to that file's
\* duration less 3.0 s, and was published by the run of that file.
C20_ResultBelongsToItsRun ==
  processedVideo # NoResult =>
    \E r \in Runs :
      /\ processedVideo.url = <<r, "result">>
      /\ processedVideo.originalName = run[r].file.name
      /\ processedVideo.blob.data = Trimmed(Bytes(run[r].file), endTime(run[r].file))
====
